---- MODULE Spec2Model ----
(***************************************************************************)
(* Model of monitor/filter_color-green.py: the PlatformIO device-monitor   *)
(* filter MyFilter ("color-green").  Text is a sequence of one-character   *)
(* strings.  The filter's state is its buffer and what it has printed; the *)
(* history of calls is recorded so that properties about return values and *)
(* about sequences of calls can be stated.                                 *)
(***************************************************************************)
EXTENDS Integers, Sequences, FiniteSets, TLC

\* ---------------------------------------------------------------- bounds
MaxChunk == 2      \* longest inbound chunk handed to rx
MaxTxLen == 1      \* longest outbound text handed to tx
MaxCalls == 2      \* calls made on one filter instance
MaxBacklogCalls == 3   \* rx calls made on one instance fed lines only

\* ------------------------------------------------------------ characters
NL  == "\n"
CR  == "\r"
ESC == "ESC"                              \* the character \033
Chars == {"a", CR, NL}                    \* characters the device can send

GREEN == <<ESC, "[", "3", "2", "m">>      \* "\033[32m"
RESET == <<ESC, "[", "0", "m">>           \* "\033[0m"

RECURSIVE StrUpTo(_)
StrUpTo(n) ==
  IF n = 0 THEN {<<>>}
  ELSE LET S == StrUpTo(n - 1)
       IN  S \cup {Append(s, c) : s \in {t \in S : Len(t) = n - 1}, c \in Chars}

RxTexts == StrUpTo(MaxChunk)
TxTexts == StrUpTo(MaxTxLen)

\* --------------------------------------------------- string primitives
\* Python: c in s
In(c, s) == \E i \in DOMAIN s : s[i] = c

\* Python: s.find(c) as a 1-based index (0 when absent)
Find(c, s) ==
  IF In(c, s) THEN CHOOSE i \in DOMAIN s : s[i] = c /\ \A j \in 1..(i - 1) : s[j] # c
  ELSE 0

\* Python: s.split(c, 1) when c is in s: <<before first c, after first c>>
Split1(s, c) ==
  LET i == Find(c, s)
  IN  << SubSeq(s, 1, i - 1), SubSeq(s, i + 1, Len(s)) >>

\* ------------------------------------------------------------ the filter
\* tx that returns the trace line it printed
tx_ReturnsTrace(text) == [ret |-> <<"TX: ">> \o text, out |-> <<"TX: ">> \o text]

\* MyFilter.tx(text): prints "TX: <text>" and returns text
tx(text) == [ret |-> text, out |-> <<"TX: ">> \o text]

\* rx with the membership test made on the chunk instead of the buffer
rx_TestsChunk(buf, text) ==
  LET full == buf \o text
  IN  IF In(NL, text)
      THEN [ret |-> GREEN \o Split1(full, NL)[1] \o RESET \o <<NL>>,
            buffer |-> Split1(full, NL)[2]]
      ELSE [ret |-> <<>>, buffer |-> full]

\* rx that assigns the chunk to the buffer instead of appending it
rx_NoAppend(buf, text) ==
  LET full == text
  IN  IF In(NL, full)
      THEN [ret |-> GREEN \o Split1(full, NL)[1] \o RESET \o <<NL>>,
            buffer |-> Split1(full, NL)[2]]
      ELSE [ret |-> <<>>, buffer |-> full]

\* rx that puts the chunk in front of the buffer instead of behind it
rx_Prepends(buf, text) ==
  LET full == text \o buf
  IN  IF In(NL, full)
      THEN [ret |-> GREEN \o Split1(full, NL)[1] \o RESET \o <<NL>>,
            buffer |-> Split1(full, NL)[2]]
      ELSE [ret |-> <<>>, buffer |-> full]

\* rx that splits at the last newline (rsplit) instead of the first
rx_SplitsAtLast(buf, text) ==
  LET full == buf \o text
      i    == CHOOSE j \in DOMAIN full : full[j] = NL /\ \A m \in (j + 1)..Len(full) : full[m] # NL
  IN  IF In(NL, full)
      THEN [ret |-> GREEN \o SubSeq(full, 1, i - 1) \o RESET \o <<NL>>,
            buffer |-> SubSeq(full, i + 1, Len(full))]
      ELSE [ret |-> <<>>, buffer |-> full]

\* rx that clears the buffer after handing off a line
rx_DropsRemainder(buf, text) ==
  LET full == buf \o text
  IN  IF In(NL, full)
      THEN [ret |-> GREEN \o Split1(full, NL)[1] \o RESET \o <<NL>>,
            buffer |-> <<>>]
      ELSE [ret |-> <<>>, buffer |-> full]

\* rx that loops over every newline and returns all complete lines at once
RECURSIVE rx_AllLines(_, _)
rx_AllLines(buf, text) ==
  LET full == buf \o text
  IN  IF In(NL, full)
      THEN LET more == rx_AllLines(Split1(full, NL)[2], <<>>)
           IN  [ret |-> GREEN \o Split1(full, NL)[1] \o RESET \o <<NL>> \o more.ret,
                buffer |-> more.buffer]
      ELSE [ret |-> <<>>, buffer |-> full]

\* rx that looks for the newline before appending the chunk
rx_TestsBeforeAppend(buf, text) ==
  LET full == buf \o text
  IN  IF In(NL, buf)
      THEN [ret |-> GREEN \o Split1(full, NL)[1] \o RESET \o <<NL>>,
            buffer |-> Split1(full, NL)[2]]
      ELSE [ret |-> <<>>, buffer |-> full]

\* rx that returns the first line without removing it from the buffer
rx_KeepsLine(buf, text) ==
  LET full == buf \o text
  IN  IF In(NL, full)
      THEN [ret |-> GREEN \o Split1(full, NL)[1] \o RESET \o <<NL>>,
            buffer |-> full]
      ELSE [ret |-> <<>>, buffer |-> full]

\* MyFilter.rx(text): append, then hand off the first line if there is one
rx(buf, text) ==
  LET full == buf \o text
  IN  IF In(NL, full)
      THEN [ret |-> GREEN \o Split1(full, NL)[1] \o RESET \o <<NL>>,
            buffer |-> Split1(full, NL)[2]]
      ELSE [ret |-> <<>>, buffer |-> full]

\* ----------------------------------------------------------------- state
VARIABLES buffer,   \* self.buffer
          stdout,   \* lines printed so far
          calls     \* history: one record per completed call

vars == <<buffer, stdout, calls>>

\* MyFilter.__init__
Init ==
  /\ buffer = <<>>
  /\ stdout = << <<"Green color filter has loaded">> >>
  /\ calls = <<>>

\* tx that empties the buffer
CallTx_ClearsBuffer(text) ==
  /\ Len(calls) < MaxCalls
  /\ stdout' = Append(stdout, tx(text).out)
  /\ buffer' = <<>>
  /\ calls' = Append(calls, [op |-> "tx", text |-> text, ret |-> tx(text).ret,
                             before |-> buffer, after |-> <<>>])

\* MyFilter.tx as a step of the filter
CallTx(text) ==
  /\ Len(calls) < MaxCalls
  /\ stdout' = Append(stdout, tx(text).out)
  /\ UNCHANGED buffer
  /\ calls' = Append(calls, [op |-> "tx", text |-> text, ret |-> tx(text).ret,
                             before |-> buffer, after |-> buffer])

\* MyFilter.rx as a step of the filter
CallRx(text) ==
  /\ Len(calls) < MaxCalls
  /\ buffer' = rx(buffer, text).buffer
  /\ UNCHANGED stdout
  /\ calls' = Append(calls, [op |-> "rx", text |-> text, ret |-> rx(buffer, text).ret,
                             before |-> buffer, after |-> rx(buffer, text).buffer])

Next ==
  \/ \E text \in RxTexts : CallRx(text)
  \/ \E text \in TxTexts : CallTx(text)

Spec == Init /\ [][Next]_vars

\* The filter fed by a device that sends only "a" and newlines, with no
\* outbound traffic: fewer inputs per call, one call more.
BacklogTexts == {t \in RxTexts : \A i \in DOMAIN t : t[i] # CR}

\* MyFilter.rx as a step of the filter, in the longer run
BacklogRx(text) ==
  /\ Len(calls) < MaxBacklogCalls
  /\ buffer' = rx(buffer, text).buffer
  /\ UNCHANGED stdout
  /\ calls' = Append(calls, [op |-> "rx", text |-> text, ret |-> rx(buffer, text).ret,
                             before |-> buffer, after |-> rx(buffer, text).buffer])

NextBacklog == \E text \in BacklogTexts : BacklogRx(text)

SpecBacklog == Init /\ [][NextBacklog]_vars

\* ------------------------------------------------- vocabulary of the claims
HasNL(s) == \E i \in DOMAIN s : s[i] = NL

CountNL(s) == Cardinality({i \in DOMAIN s : s[i] = NL})

Colorized(line) == GREEN \o line \o RESET \o <<NL>>

RECURSIVE Concat(_)
Concat(ss) == IF ss = <<>> THEN <<>> ELSE Head(ss) \o Concat(Tail(ss))

\* the rx calls of the history, in call order
RxCalls == SelectSeq(calls, LAMBDA c : c.op = "rx")

\* all inbound chunks, concatenated in call order
Inbound == Concat([k \in DOMAIN RxCalls |-> RxCalls[k].text])

\* all rx return values, concatenated in call order
Returned == Concat([k \in DOMAIN RxCalls |-> RxCalls[k].ret])

\* the non-empty rx return values, in call order
Emitted == SelectSeq([k \in DOMAIN RxCalls |-> RxCalls[k].ret], LAMBDA r : r # <<>>)

\* positions of the newlines of s, and of its n-th newline (0 for n = 0)
NLPos(s) == {i \in DOMAIN s : s[i] = NL}

NthNL(s, n) ==
  IF n = 0 THEN 0
  ELSE CHOOSE i \in NLPos(s) : Cardinality({j \in NLPos(s) : j <= i}) = n

\* the n-th newline-terminated line of s, newline excluded
NthLine(s, n) == SubSeq(s, NthNL(s, n - 1) + 1, NthNL(s, n) - 1)

\* s with every newline-terminated segment colorized and the unterminated
\* tail dropped
ColorizedLines(s) == Concat([n \in 1..CountNL(s) |-> Colorized(NthLine(s, n))])

\* ------------------------------------------------------------------ C1
\* C1: the concatenation of all rx return values equals the inbound stream
\* with every newline-terminated segment colorized; only the unterminated
\* trailing segment is withheld.
C1_Reconstruction == Returned = ColorizedLines(Inbound)

\* ------------------------------------------------------------------ C2
\* C2: in every reachable state, rx(s) for s without a newline returns the
\* empty string and leaves buffer = previous buffer + s.
C2_NoNewlineIsBuffered ==
  \A k \in DOMAIN calls :
    (calls[k].op = "rx" /\ ~HasNL(calls[k].text))
      => /\ calls[k].ret = <<>>
         /\ calls[k].after = calls[k].before \o calls[k].text

\* ------------------------------------------------------------------ C3
\* C3 as stated: in every reachable state, rx(s) for s with exactly one
\* newline, at position i, returns the colorized s[:i] and leaves
\* buffer = s[i+1:].
C3_Original ==
  \A k \in DOMAIN calls :
    (calls[k].op = "rx" /\ CountNL(calls[k].text) = 1)
      => LET s == calls[k].text
             i == NthNL(s, 1)
         IN  /\ calls[k].ret = GREEN \o SubSeq(s, 1, i - 1) \o RESET \o <<NL>>
             /\ calls[k].after = SubSeq(s, i + 1, Len(s))

\* C3 amended: when the buffer B before the call holds no newline, rx(s) for
\* s with exactly one newline, at position i, returns the colorized B + s[:i]
\* and leaves buffer = s[i+1:].
C3_Amended ==
  \A k \in DOMAIN calls :
    (calls[k].op = "rx" /\ CountNL(calls[k].text) = 1 /\ ~HasNL(calls[k].before))
      => LET s == calls[k].text
             i == NthNL(s, 1)
         IN  /\ calls[k].ret =
                  GREEN \o calls[k].before \o SubSeq(s, 1, i - 1) \o RESET \o <<NL>>
             /\ calls[k].after = SubSeq(s, i + 1, Len(s))

\* a one-newline chunk arrived on a non-empty, newline-free buffer and left
\* a remainder
C3_Witness ==
  \E k \in DOMAIN calls :
    /\ calls[k].op = "rx"
    /\ CountNL(calls[k].text) = 1
    /\ calls[k].before # <<>>
    /\ ~HasNL(calls[k].before)
    /\ calls[k].after # <<>>

\* ------------------------------------------------------------------ C5
\* C5: when B + text holds a newline, rx(text) returns the colorized part of
\* B + text before its FIRST newline and leaves exactly the part after that
\* first newline in the buffer.
C5_SplitAtFirstNewline ==
  \A k \in DOMAIN calls :
    LET full == calls[k].before \o calls[k].text
    IN  (calls[k].op = "rx" /\ HasNL(full))
          => \E i \in DOMAIN full :
               /\ full[i] = NL
               /\ \A j \in 1..(i - 1) : full[j] # NL
               /\ calls[k].ret = GREEN \o SubSeq(full, 1, i - 1) \o RESET \o <<NL>>
               /\ calls[k].after = SubSeq(full, i + 1, Len(full))

\* an rx call whose B + text held two newlines with text between them
C5_Witness ==
  \E k \in DOMAIN calls :
    LET full == calls[k].before \o calls[k].text
    IN  /\ calls[k].op = "rx"
        /\ calls[k].before # <<>>
        /\ CountNL(full) >= 2
        /\ NthNL(full, 2) > NthNL(full, 1) + 1

\* ------------------------------------------------------------------ C6
\* C6: tx returns exactly its argument, in every state of the filter.
C6_TxIdentity ==
  \A k \in DOMAIN calls : calls[k].op = "tx" => calls[k].ret = calls[k].text

\* tx was called with a non-empty text while the buffer held data
C6_Witness ==
  \E k \in DOMAIN calls :
    calls[k].op = "tx" /\ calls[k].text # <<>> /\ calls[k].before # <<>>

\* ------------------------------------------------------------------ C7
\* C7: every rx return value is empty or holds exactly one newline, as its
\* last character; a chunk with two or more newlines fed to an empty buffer
\* returns only its first line, colorized, and everything after the first
\* newline stays in the buffer.
C7_AtMostOneLinePerCall ==
  \A k \in DOMAIN calls :
    calls[k].op = "rx" =>
      LET r == calls[k].ret
          s == calls[k].text
      IN  /\ r = <<>> \/ (CountNL(r) = 1 /\ r[Len(r)] = NL)
          /\ (calls[k].before = <<>> /\ CountNL(s) >= 2)
               => /\ r = GREEN \o SubSeq(s, 1, NthNL(s, 1) - 1) \o RESET \o <<NL>>
                  /\ calls[k].after = SubSeq(s, NthNL(s, 1) + 1, Len(s))
                  /\ CountNL(calls[k].after) = CountNL(s) - 1

\* a chunk with two newlines was fed to an empty buffer
C7_Witness ==
  \E k \in DOMAIN calls :
    /\ calls[k].op = "rx"
    /\ calls[k].before = <<>>
    /\ CountNL(calls[k].text) >= 2
    /\ HasNL(calls[k].after)

\* ------------------------------------------------------------------ C4
\* C4: at any time the buffer contains no newline character.
C4_NoNewlineInBuffer == ~HasNL(buffer)

\* ------------------------------------------------------------------ C8
\* one whole line: a single newline, as the last character
WholeLine(s) == CountNL(s) = 1 /\ s[Len(s)] = NL

\* C8: the k-th non-empty rx return value is the colorized k-th
\* newline-terminated line of the concatenated inbound stream (no line is
\* emitted twice, skipped or out of order); when every chunk so far was one
\* whole line, each call returned its own line.
C8_ArrivalOrder ==
  /\ Len(Emitted) <= CountNL(Inbound)
  /\ \A k \in DOMAIN Emitted :
       Emitted[k] = GREEN \o NthLine(Inbound, k) \o RESET \o <<NL>>
  /\ (\A k \in DOMAIN RxCalls : WholeLine(RxCalls[k].text))
       => \A k \in DOMAIN RxCalls :
            RxCalls[k].ret =
              GREEN \o SubSeq(RxCalls[k].text, 1, Len(RxCalls[k].text) - 1)
                    \o RESET \o <<NL>>

\* two different lines were emitted, the second after a fragment of it had
\* been withheld
C8_Witness ==
  /\ Len(Emitted) = 2
  /\ Emitted[1] # Emitted[2]
  /\ \E k \in DOMAIN RxCalls : RxCalls[k].before # <<>>

\* ------------------------------------------------------------------ C9
\* C9: on a fresh filter, for newline-free a and b, rx(a) returns "" and
\* leaves buffer = a, and the following rx(b + "\n") returns the colorized
\* a + b and leaves the buffer empty.
C9_PartialThenComplete ==
  (/\ Len(RxCalls) >= 2
   /\ ~HasNL(RxCalls[1].text)
   /\ WholeLine(RxCalls[2].text))
    => LET a == RxCalls[1].text
           b == SubSeq(RxCalls[2].text, 1, Len(RxCalls[2].text) - 1)
       IN  /\ RxCalls[1].before = <<>>
           /\ RxCalls[1].ret = <<>>
           /\ RxCalls[1].after = a
           /\ RxCalls[2].ret = GREEN \o a \o b \o RESET \o <<NL>>
           /\ RxCalls[2].after = <<>>

\* a non-empty fragment, then a non-empty rest of line with its newline
C9_Witness ==
  /\ Len(RxCalls) >= 2
  /\ RxCalls[1].text # <<>>
  /\ ~HasNL(RxCalls[1].text)
  /\ WholeLine(RxCalls[2].text)
  /\ Len(RxCalls[2].text) >= 2

\* ----------------------------------------------------------------- C10
\* C10 as stated: a complete line already in the buffer is released only by
\* a later rx call whose text is non-empty.
C10_Original ==
  \A k \in DOMAIN calls :
    (calls[k].op = "rx" /\ HasNL(calls[k].before) /\ calls[k].ret # <<>>)
      => calls[k].text # <<>>

\* C10 amended: a complete line already in the buffer stays there across tx
\* calls and is released only by a later rx call; every later rx call,
\* whatever its text and also when its text is empty, returns the oldest
\* buffered line and no other.
C10_Amended ==
  \A k \in DOMAIN calls :
    HasNL(calls[k].before) =>
      LET B == calls[k].before
      IN  IF calls[k].op = "rx"
          THEN /\ calls[k].ret = GREEN \o SubSeq(B, 1, NthNL(B, 1) - 1) \o RESET \o <<NL>>
               /\ calls[k].after = SubSeq(B, NthNL(B, 1) + 1, Len(B)) \o calls[k].text
          ELSE calls[k].after = B

\* an rx call with empty text released a line that an earlier chunk had
\* left in the buffer
C10_Witness ==
  \E k \in DOMAIN calls :
    /\ calls[k].op = "rx"
    /\ calls[k].text = <<>>
    /\ HasNL(calls[k].before)
    /\ calls[k].ret # <<>>
    /\ calls[k].after = <<>>

\* ----------------------------------------------------------------- C11
\* a return value with the ESC[32m in front of its line and the ESC[0m
\* behind it removed
Uncolored(r) ==
  IF r = <<>> THEN <<>>
  ELSE SubSeq(r, Len(GREEN) + 1, Len(r) - Len(RESET) - 1) \o <<r[Len(r)]>>

\* C11: no inbound character is lost or duplicated: the rx return values,
\* each with its ESC[32m prefix and ESC[0m marker removed, concatenated in
\* call order and followed by the current buffer, equal the concatenation of
\* all inbound chunks in call order, whatever tx calls are interleaved.
C11_NothingLostOrDuplicated ==
  /\ \A k \in DOMAIN Emitted :
       /\ SubSeq(Emitted[k], 1, Len(GREEN)) = GREEN
       /\ SubSeq(Emitted[k], Len(Emitted[k]) - Len(RESET), Len(Emitted[k]) - 1) = RESET
  /\ Concat([k \in DOMAIN RxCalls |-> Uncolored(RxCalls[k].ret)]) \o buffer = Inbound

\* a line was returned, one later call was made, and data is still buffered
C11_Witness ==
  /\ Len(calls) = 2
  /\ calls[1].op = "rx"
  /\ calls[1].ret # <<>>
  /\ Len(calls[1].ret) > Len(GREEN) + Len(RESET) + 1
  /\ buffer # <<>>

\* ----------------------------------------------------------------- C12
\* C12: tx leaves the buffer unchanged, so tx calls inserted anywhere among
\* the rx calls change no rx return value and not the final buffer: every rx
\* call starts from the buffer the previous rx call left (the empty buffer
\* for the first), returns what that buffer and its text alone determine,
\* and the current buffer is the one the last rx call left.
C12_TxLeavesBuffer ==
  /\ \A k \in DOMAIN calls : calls[k].op = "tx" => calls[k].after = calls[k].before
  /\ \A k \in DOMAIN RxCalls :
       LET B    == IF k = 1 THEN <<>> ELSE RxCalls[k - 1].after
           full == B \o RxCalls[k].text
       IN  /\ RxCalls[k].before = B
           /\ RxCalls[k].ret =
                IF HasNL(full)
                THEN GREEN \o SubSeq(full, 1, NthNL(full, 1) - 1) \o RESET \o <<NL>>
                ELSE <<>>
  /\ buffer = IF RxCalls = <<>> THEN <<>> ELSE RxCalls[Len(RxCalls)].after

\* a tx call was made right after an rx call that left a complete line and
\* more in the buffer
C12_Witness ==
  /\ Len(calls) = 2
  /\ calls[1].op = "rx"
  /\ calls[2].op = "tx"
  /\ HasNL(calls[2].before)
  /\ calls[2].text # <<>>
  /\ buffer = calls[1].after

\* ----------------------------------------------------------------- C13
\* C13: if every chunk fed to a fresh filter holds at most one newline, then
\* after every rx call the buffer holds no newline, and every line is
\* returned by the rx call that delivered its terminating newline: a call
\* whose chunk holds the newline returns the colorized pending fragment plus
\* the chunk up to that newline, and a call without a newline returns "".
C13_NoDelayWithOneNewlinePerChunk ==
  (\A k \in DOMAIN RxCalls : CountNL(RxCalls[k].text) <= 1)
    => /\ ~HasNL(buffer)
       /\ \A k \in DOMAIN RxCalls :
            LET s == RxCalls[k].text
            IN  /\ ~HasNL(RxCalls[k].after)
                /\ IF HasNL(s)
                   THEN RxCalls[k].ret =
                          GREEN \o RxCalls[k].before \o SubSeq(s, 1, NthNL(s, 1) - 1)
                                \o RESET \o <<NL>>
                   ELSE RxCalls[k].ret = <<>>

\* two chunks with one newline each, the first leaving a fragment that the
\* second completes
C13_Witness ==
  /\ Len(RxCalls) = 2
  /\ CountNL(RxCalls[1].text) = 1
  /\ CountNL(RxCalls[2].text) = 1
  /\ RxCalls[1].after # <<>>
  /\ Len(Emitted) = 2

\* ----------------------------------------------------------------- C14
\* the number of newlines rx(text) leaves in the buffer, as claimed
Drained(before, text) ==
  IF CountNL(before) + CountNL(text) >= 1
  THEN CountNL(before) + CountNL(text) - 1
  ELSE 0

\* C14 as stated: the buffer holds max(0, newlines before + newlines in text
\* - 1) newlines after rx(text); once it holds k >= 1 newlines after some
\* call, it holds at least k after every later call whose text holds a
\* newline, and each such call returns a line that arrived in an earlier
\* call.
C14_Original ==
  /\ \A k \in DOMAIN RxCalls :
       CountNL(RxCalls[k].after) = Drained(RxCalls[k].before, RxCalls[k].text)
  /\ \A i, j \in DOMAIN RxCalls :
       (i < j /\ CountNL(RxCalls[i].after) >= 1 /\ HasNL(RxCalls[j].text))
         => LET B == RxCalls[j].before
            IN  /\ CountNL(RxCalls[j].after) >= CountNL(RxCalls[i].after)
                /\ HasNL(B)
                /\ RxCalls[j].ret =
                     GREEN \o SubSeq(B, 1, NthNL(B, 1) - 1) \o RESET \o <<NL>>

\* C14 amended: the buffer holds max(0, newlines before + newlines in text
\* - 1) newlines after rx(text); once it holds k >= 1 newlines after some
\* call, then as long as every later call's text holds a newline the buffer
\* holds at least k newlines after each of them, and each of them returns a
\* line that arrived in an earlier call.
C14_Amended ==
  /\ \A k \in DOMAIN RxCalls :
       CountNL(RxCalls[k].after) = Drained(RxCalls[k].before, RxCalls[k].text)
  /\ \A i, j \in DOMAIN RxCalls :
       (/\ i < j
        /\ CountNL(RxCalls[i].after) >= 1
        /\ \A m \in (i + 1)..j : HasNL(RxCalls[m].text))
         => LET B == RxCalls[j].before
            IN  /\ CountNL(RxCalls[j].after) >= CountNL(RxCalls[i].after)
                /\ HasNL(B)
                /\ RxCalls[j].ret =
                     GREEN \o SubSeq(B, 1, NthNL(B, 1) - 1) \o RESET \o <<NL>>

\* a chunk left a complete line behind and two more chunks, each with a
\* newline, arrived: the backlog is still there and the last call returned
\* a line of an earlier chunk, not its own
C14_Witness ==
  /\ Len(RxCalls) = 3
  /\ CountNL(RxCalls[1].after) >= 1
  /\ HasNL(RxCalls[2].text)
  /\ HasNL(RxCalls[3].text)
  /\ CountNL(buffer) >= 1
  /\ RxCalls[3].ret # GREEN \o SubSeq(RxCalls[3].text, 1, NthNL(RxCalls[3].text, 1) - 1)
                            \o RESET \o <<NL>>

\* ----------------------------------------------------------------- C15
\* position of the last newline of s before position j (0 when there is none)
PrevNL(s, j) ==
  IF \E i \in 1..(j - 1) : s[i] = NL
  THEN CHOOSE i \in 1..(j - 1) : s[i] = NL /\ \A m \in (i + 1)..(j - 1) : s[m] # NL
  ELSE 0

\* C15: only "\n" terminates a line and "\r" is ordinary data: a chunk that
\* ends in "\r" and holds no "\n" returns "" and is buffered; and the call
\* that brings the "\n" of a line holding a "\r" returns that line colorized,
\* the "\r" inside it, before ESC[0m.
C15_CarriageReturnIsData ==
  \A k \in DOMAIN RxCalls :
    LET s    == RxCalls[k].text
        B    == RxCalls[k].before
        full == B \o s
    IN  /\ (s # <<>> /\ s[Len(s)] = CR /\ ~HasNL(s))
             => /\ RxCalls[k].ret = <<>>
                /\ RxCalls[k].after = B \o s
        /\ HasNL(s)
             => LET j    == Len(B) + NthNL(s, 1)
                    line == SubSeq(full, PrevNL(full, j) + 1, j - 1)
                IN  In(CR, line)
                      => RxCalls[k].ret = GREEN \o line \o RESET \o <<NL>>

====
